---- MODULE Spec2Model ----
(***************************************************************************)
(* FailoverRedis (src/failover/python/redis-python-client-failover.py):    *)
(* a client that keeps a shuffled list of endpoints, connects to the first *)
(* one that answers a ping starting at the active index, and wraps every   *)
(* command in a tenacity retry policy that fails over on transient errors. *)
(*                                                                         *)
(* The store (redis.Redis, ping, the command) and tenacity are external:   *)
(* an endpoint either answers or not (health), a failing ping raises an    *)
(* exception of either kind, and the caller's command may end any way.     *)
(***************************************************************************)
EXTENDS Integers, Sequences, FiniteSets, TLC

\* ---------------------------------------------------------------- bounds
\* Longest endpoint list handed to the constructor.
MaxEndpoints == 3
\* Length of the endpoint list of a manager that two callers share.
MaxSharedEndpoints == 2
\* ------------------------------------------------------- program constants
\* stop_after_attempt(5): original try + 4 retries.
MaxAttempts == 5

\* wait_random_exponential(multiplier=0.2, max=2.0), in fifths of a time
\* unit.
WaitMultiplier == 1
WaitMax == 10

\* Threads that may share one manager, and the one that owns it in
\* single-owner use.
Threads == {"t1", "t2"}
Owner == "t1"

\* Endpoint values; only their identity matters to the manager.
EndpointIds == 1..MaxEndpoints

\* No handle (Python None for self._client and for the local client).
NoClient == [ep |-> 0, id |-> 0, open |-> FALSE]
\* No exception (Python None for last_err / nothing in flight).
NoErr == [kind |-> "none", src |-> "none", at |-> 0]

\* The exception classes the code tells apart: the retryable tuple
\* (redis TimeoutError, redis ConnectionError, OSError) and everything else.
ErrKinds == {"transient", "fatal"}

VARIABLES
    mgr,         \* "new" before __init__, then "ready", or "failed" (it raised)
    supplied,    \* the caller's endpoint list handed to __init__
    endpoints,   \* self.endpoints
    client,      \* self._client
    active_idx,  \* self._active_idx
    health,      \* environment: does the endpoint answer (ping and commands)
    callers,     \* the threads that call the manager
    mutex,       \* do the callers hold a mutex of their own across each attempt
    th,          \* per thread: position in execute and its local variables
    hist,        \* per thread: what the current execute call has done so far
    closeLog     \* what the last close() call has done

vars == <<mgr, supplied, endpoints, client, active_idx, health, callers, mutex,
          th, hist, closeLog>>

\* ---------------------------------------------------------------- helpers
Range(s) == {s[j] : j \in DOMAIN s}

Min(S) == CHOOSE x \in S : \A y \in S : x <= y

\* Lists are enumerated up to renaming of the endpoints: a new endpoint
\* value gets the next unused name.
IsCanonical(s) ==
    \A j \in DOMAIN s : \/ s[j] = 1
                        \/ \E k \in 1..(j - 1) : s[k] >= s[j] - 1

SuppliedLists ==
    {s \in UNION {[1..n -> EndpointIds] : n \in 0..MaxEndpoints} : IsCanonical(s)}

\* A shuffle that draws every position anew from the list.
ShufflesWithRepeats(s) == [1..Len(s) -> Range(s)]

\* random.shuffle(self.endpoints) on a copy: any permutation of the list.
Shuffles(s) ==
    LET n == Len(s)
        perms == {p \in [1..n -> 1..n] : \A a, b \in 1..n : a # b => p[a] # p[b]}
    IN  {[j \in 1..n |-> s[p[j]]] : p \in perms}

\* len(self.endpoints)
N == Len(endpoints)

\* Handle ids still referenced by the program.
UsedIds ==
    {client.id} \cup {th[t].client.id : t \in Threads}

\* Identity of a newly built object: that of no object still referenced.
FreshId == Min({k \in 1..(Cardinality(UsedIds) + 1) : k \notin UsedIds})

\* _make_client(ep): a new redis.Redis for the endpoint; no I/O.
MakeClient(ep) == [ep |-> ep, id |-> FreshId, open |-> TRUE]

\* A retry predicate that retries on every exception.
RetryIfAny(e) == TRUE

\* retry_if_exception_type((TimeoutError, ConnectionError, OSError))
RetryIf(e) == e.kind = "transient"

\* An except clause that catches nothing.
CaughtNever(e) == FALSE

\* except (TimeoutError, ConnectionError, OSError) in execute
Caught(e) == e.kind = "transient"

\* A stop condition one attempt late.
StopAfterAttemptLate(attempt) == attempt >= MaxAttempts + 1

\* A stop condition one attempt short.
StopAfterAttemptEarly(attempt) == attempt >= MaxAttempts - 1

\* stop_after_attempt(5)
StopAfterAttempt(attempt) == attempt >= MaxAttempts

\* An except block that forgets to advance the index.
NextIdxStay(idx) == idx

\* An except block that advances the index without wrapping around.
NextIdxNoWrap(idx) == idx + 1

\* (self._active_idx + 1) % len(self.endpoints) in the except block
NextIdx(idx) == (idx + 1) % N

\* A rotation that walks the list backwards.
ProbeIdxBack(i) == (active_idx + N - i) % N

\* idx = (self._active_idx + i) % len(self.endpoints) in _connect
ProbeIdx(i) == (active_idx + i) % N

\* A loop that probes one endpoint more than the list holds.
ProbeCountLong == N + 1

\* for i in range(len(self.endpoints)): the iterations of the loop of _connect
ProbeCount == N

\* raise last_err if last_err else ConnectionError("No endpoints reachable")
\* (the built-in ConnectionError is an OSError).
RaiseOf(last_err) ==
    IF last_err = NoErr
    THEN [kind |-> "transient", src |-> "connect", at |-> 0]
    ELSE last_err

\* The locals of a frame go with the frame: they are reset when _connect
\* returns, when the attempt body raises and when tenacity starts the next
\* attempt.
IdleThread == [pc |-> "idle", attempt |-> 0, i |-> 0, last_err |-> NoErr,
               client |-> NoClient, exc |-> NoErr, wait |-> 0,
               ret |-> [kind |-> "none", ep |-> 0, inv |-> 0]]

\* What one execute call has done so far: the active index when it began, the
\* _ensure_client calls, command invocations and sleeps made, the active index
\* at the last invocation, the probes of the last _connect call and the active
\* index when it began, the failed probes of the whole call (counted modulo
\* the list length, which is all the rotation can show), and whether the
\* endpoints have been steady and the command has followed their health
\* (it succeeds on an endpoint that answers and fails on one that does not).
NoHist == [startIdx |-> 0, ensures |-> 0, opCalls |-> 0, opIdx |-> 0,
           failedProbes |-> 0, sleeps |-> 0,
           probed |-> <<>>, connIdx |-> 0, regular |-> TRUE]

\* The last close(), until a command is next invoked or the call that follows
\* it ends: the active index it found, how the release of the handle went
\* ("none": no handle was held), whether the call returned, and, until the
\* next call begins, whether it directly followed another close() ("no", or
\* how the release went in that one).
NoClose == [fresh |-> FALSE, idx |-> 0, released |-> "none",
            outcome |-> "none", again |-> "no"]

\* The two logs are kept in single-owner use; they stay empty when the
\* manager is shared.
Log(h) == IF callers = {Owner} THEN h ELSE hist
LogClose(c) == IF callers = {Owner} THEN c ELSE closeLog

\* ------------------------------------------------------------------- Init
Init ==
    /\ mgr = "new"
    /\ supplied \in SuppliedLists
    /\ endpoints = <<>>
    /\ client = NoClient
    /\ active_idx = 0
    /\ health \in [Range(supplied) -> BOOLEAN]
    /\ callers = {Owner}
    /\ mutex = FALSE
    /\ th = [t \in Threads |-> IdleThread]
    /\ hist = [t \in Threads |-> NoHist]
    /\ closeLog = NoClose

\* --------------------------------------------------------------- __init__
\* An emptiness check that lets every list through.
RejectsNone(s) == FALSE

\* if not endpoints: raise ValueError("At least one endpoint is required")
Rejects(s) == Len(s) = 0

\* self.endpoints = endpoints[:]: the shuffle works on a copy, the caller's
\* list stays as it was.
AfterShuffle(s, shuffled) == s

Construct ==
    /\ mgr = "new"
    /\ IF Rejects(supplied)
       THEN /\ mgr' = "failed"
            /\ UNCHANGED <<supplied, endpoints, client, active_idx>>
       ELSE /\ mgr' = "ready"
            /\ endpoints' \in Shuffles(supplied)
            /\ supplied' = AfterShuffle(supplied, endpoints')
            /\ client' = NoClient
            /\ active_idx' = 0
    /\ UNCHANGED <<health, callers, mutex, th, hist, closeLog>>

\* ---------------------------------------------------------------- execute
\* A caller enters execute: tenacity starts attempt 1.
Execute(t) ==
    /\ mgr = "ready"
    /\ t \in callers
    /\ th[t].pc = "idle"
    /\ th' = [th EXCEPT ![t] = [IdleThread EXCEPT !.pc = "ensure", !.attempt = 1]]
    /\ hist' = Log([hist EXCEPT ![t] = [NoHist EXCEPT !.startIdx = active_idx]])
    /\ closeLog' = LogClose([closeLog EXCEPT !.again = "no"])
    /\ UNCHANGED <<mgr, supplied, endpoints, client, active_idx, health, callers, mutex>>

\* The part of an attempt the callers' mutex covers, where they use one:
\* from _ensure_client to the end of the attempt body.
InAttempt(t) == th[t].pc \in {"connect", "call", "except", "advance"}

\* The callers' mutex is held by another caller.
Locked(t) == mutex /\ \E u \in Threads \ {t} : InAttempt(u)

\* An _ensure_client that connects anew every time.
IsNoneAlways(c) == TRUE

\* if self._client is None
IsNone(c) == c = NoClient

\* _ensure_client: the held handle, or _connect().
EnsureClient(t) ==
    /\ th[t].pc = "ensure"
    /\ ~Locked(t)
    /\ IF IsNone(client)
       THEN /\ th' = [th EXCEPT ![t].pc = "connect", ![t].i = 0,
                                ![t].last_err = NoErr, ![t].client = NoClient]
            /\ hist' = Log([hist EXCEPT ![t].ensures = @ + 1, ![t].probed = <<>>,
                                        ![t].connIdx = active_idx])
       ELSE /\ th' = [th EXCEPT ![t].pc = "call", ![t].client = client]
            /\ hist' = Log([hist EXCEPT ![t].ensures = @ + 1])
    /\ UNCHANGED <<mgr, supplied, endpoints, client, active_idx, health, callers, mutex, closeLog>>

\* A _connect that leaves the active index where it was.
ConnectedIdxKept(idx) == active_idx

\* A _connect that stores the position after the one that answered.
ConnectedIdxNext(idx) == (idx + 1) % N

\* self._active_idx = idx after a ping that succeeded
ConnectedIdx(idx) == idx

\* A _connect that catches the transient errors of a probe only.
ProbeCaughtTransient(e) == e.kind = "transient"

\* except Exception in the loop of _connect
ProbeCaught(e) == e.kind \in ErrKinds

\* One iteration of the loop of _connect: build a handle for the endpoint at
\* (active index + i) mod N and ping it.
ConnectProbe(t) ==
    /\ th[t].pc = "connect"
    /\ th[t].i < ProbeCount
    /\ LET idx == ProbeIdx(th[t].i)
           ep == endpoints[idx + 1]
           c == MakeClient(ep)
       IN  IF health[ep]
           THEN /\ client' = c
                /\ active_idx' = ConnectedIdx(idx)
                /\ th' = [th EXCEPT ![t].pc = "call", ![t].client = c,
                                    ![t].i = 0, ![t].last_err = NoErr]
                /\ hist' = Log([hist EXCEPT
                               ![t].probed = Append(@, [pos |-> idx, ok |-> TRUE])])
           ELSE /\ \E k \in ErrKinds :
                     LET e == [kind |-> k, src |-> "probe", at |-> idx]
                     IN  IF ProbeCaught(e)
                         THEN th' = [th EXCEPT ![t].i = @ + 1, ![t].last_err = e]
                         ELSE th' = [th EXCEPT ![t].pc = "tenacity", ![t].exc = e]
                /\ hist' = Log([hist EXCEPT
                               ![t].failedProbes = (@ + 1) % N,
                               ![t].probed = Append(@, [pos |-> idx, ok |-> FALSE])])
                /\ UNCHANGED <<client, active_idx>>
    /\ UNCHANGED <<mgr, supplied, endpoints, health, callers, mutex, closeLog>>

\* End of the loop of _connect: raise last_err. The call sits outside the
\* try block of execute, so the exception leaves the attempt as it is.
ConnectRaise(t) ==
    /\ th[t].pc = "connect"
    /\ th[t].i >= ProbeCount
    /\ th' = [th EXCEPT ![t].pc = "tenacity", ![t].exc = RaiseOf(th[t].last_err)]
    /\ UNCHANGED <<mgr, supplied, endpoints, client, active_idx, health, callers, mutex, hist, closeLog>>

\* func(client, ...): the caller's command on the local handle. It returns,
\* or raises an exception of either kind.
InvokeOp(t) ==
    /\ th[t].pc = "call"
    /\ \E outcome \in {"ok"} \cup ErrKinds :
         LET inv == hist[t].opCalls + 1
             e == [kind |-> outcome, src |-> "op", at |-> inv]
         IN  /\ hist' = Log([hist EXCEPT ![t].opCalls = inv,
                            ![t].opIdx = active_idx,
                            ![t].regular = @ /\ ((outcome = "ok") <=> health[th[t].client.ep])])
             /\ IF outcome = "ok"
                THEN th' = [th EXCEPT ![t].pc = "done",
                              ![t].ret = [kind |-> "value", ep |-> th[t].client.ep, inv |-> inv]]
                ELSE IF Caught(e)
                     THEN th' = [th EXCEPT ![t].pc = "except", ![t].exc = e]
                     ELSE th' = [th EXCEPT ![t].pc = "tenacity", ![t].exc = e,
                                           ![t].client = NoClient]
    /\ closeLog' = LogClose(NoClose)
    /\ UNCHANGED <<mgr, supplied, endpoints, client, active_idx, health, callers, mutex>>

\* An except block that keeps the handle.
DiscardNothing(c) == c

\* self._client = None in the except block
Discard(c) == NoClient

\* The except block of execute, first statement: drop the handle.
Invalidate(t) ==
    /\ th[t].pc = "except"
    /\ client' = Discard(client)
    /\ th' = [th EXCEPT ![t].pc = "advance"]
    /\ UNCHANGED <<mgr, supplied, endpoints, active_idx, health, callers, mutex, hist,
                   closeLog>>

\* The except block of execute, second statement: advance the index; then
\* re-raise. Another caller may run between the two statements.
Advance(t) ==
    /\ th[t].pc = "advance"
    /\ active_idx' = NextIdx(active_idx)
    /\ th' = [th EXCEPT ![t].pc = "tenacity", ![t].client = NoClient]
    /\ UNCHANGED <<mgr, supplied, endpoints, client, health, callers, mutex, hist,
                   closeLog>>

\* A backoff whose exponent is the number of the attempt.
WaitHighLate(attempt) ==
    IF WaitMultiplier * 2^attempt < WaitMax
    THEN WaitMultiplier * 2^attempt ELSE WaitMax

\* wait_random_exponential: the upper end of the wait after the attempt of
\* this number, min(multiplier * 2^(attempt_number - 1), max).
WaitHigh(attempt) ==
    IF WaitMultiplier * 2^(attempt - 1) < WaitMax
    THEN WaitMultiplier * 2^(attempt - 1) ELSE WaitMax

\* random.uniform(0, high), in fifths of a time unit
Waits(attempt) == 0..WaitHigh(attempt)

\* tenacity after a raising attempt: if the exception is retryable and
\* attempts are left, draw a wait and go to sleep, else re-raise it.
RetryOrRaise(t) ==
    /\ th[t].pc = "tenacity"
    /\ IF RetryIf(th[t].exc) /\ ~StopAfterAttempt(th[t].attempt)
       THEN \E d \in Waits(th[t].attempt) :
                th' = [th EXCEPT ![t].pc = "sleep", ![t].wait = d]
       ELSE th' = [th EXCEPT ![t].pc = "done",
                      ![t].ret = [kind |-> "raised", ep |-> 0, inv |-> 0]]
    /\ UNCHANGED <<mgr, supplied, endpoints, client, active_idx, health, callers, mutex, hist,
                   closeLog>>

\* The sleep is over: tenacity starts the next attempt.
Wake(t) ==
    /\ th[t].pc = "sleep"
    /\ th' = [th EXCEPT ![t].pc = "ensure", ![t].attempt = @ + 1,
                        ![t].exc = NoErr, ![t].client = NoClient,
                        ![t].i = 0, ![t].last_err = NoErr, ![t].wait = 0]
    /\ hist' = Log([hist EXCEPT ![t].sleeps = @ + 1])
    /\ UNCHANGED <<mgr, supplied, endpoints, client, active_idx, health, callers, mutex, closeLog>>

\* execute has returned or raised; the caller takes the result.
Return(t) ==
    /\ th[t].pc = "done"
    /\ th' = [th EXCEPT ![t] = IdleThread]
    /\ hist' = Log([hist EXCEPT ![t] = NoHist])
    /\ closeLog' = LogClose(NoClose)
    /\ UNCHANGED <<mgr, supplied, endpoints, client, active_idx, health, callers, mutex>>

\* ------------------------------------------------------------------ close
\* self._client.close() on the held handle: the handle is closed, whether
\* the release went well or raised.
Released(c) == [c EXCEPT !.open = FALSE]

\* A close() that keeps the handle it has closed.
CloseBodyKeeping(c, released) == [client |-> c, outcome |-> "returned"]

\* A close() that lets the error of the release out, before the reset.
CloseBodyRaising(c, released) ==
    IF released = "error"
    THEN [client |-> c, outcome |-> "raised"]
    ELSE [client |-> NoClient, outcome |-> "returned"]

\* try: self._client.close() / except Exception: pass; then
\* self._client = None. The attribute after close() and how close() ends,
\* given the handle as the release left it and how the release went.
CloseBody(c, released) == [client |-> NoClient, outcome |-> "returned"]

\* close(): the release is attempted only if a handle is held; it goes well
\* or raises.
Close(t) ==
    /\ mgr = "ready"
    /\ t \in callers
    /\ th[t].pc = "idle"
    /\ ~Locked(t)
    /\ \E released \in (IF client = NoClient THEN {"none"} ELSE {"ok", "error"}) :
         LET c == IF client = NoClient THEN NoClient ELSE Released(client)
             end == CloseBody(c, released)
         IN  /\ client' = end.client
             /\ closeLog' = LogClose([fresh |-> TRUE,
                                      idx |-> active_idx,
                                      released |-> released,
                                      outcome |-> end.outcome,
                                      again |-> IF closeLog.fresh THEN closeLog.released
                                                ELSE "no"])
    /\ UNCHANGED <<mgr, supplied, endpoints, active_idx, health, callers, mutex, th, hist>>

\* ------------------------------------------------------------ environment
\* An endpoint goes down or comes back at any time.
EnvChange ==
    /\ mgr = "ready"
    /\ \E e \in DOMAIN health : health' = [health EXCEPT ![e] = ~@]
    /\ hist' = Log([t \in Threads |->
                       IF th[t].pc = "idle" THEN hist[t]
                       ELSE [hist[t] EXCEPT !.regular = FALSE]])
    /\ UNCHANGED <<mgr, supplied, endpoints, client, active_idx, callers, mutex, th, closeLog>>

CallStep(t) ==
    \/ EnsureClient(t)
    \/ ConnectProbe(t)
    \/ ConnectRaise(t)
    \/ InvokeOp(t)
    \/ Invalidate(t)
    \/ Advance(t)
    \/ RetryOrRaise(t)
    \/ Wake(t)

Next ==
    \/ Construct
    \/ \E t \in Threads : Execute(t)
    \/ \E t \in Threads : CallStep(t)
    \/ \E t \in Threads : Return(t)
    \/ \E t \in Threads : Close(t)
    \/ EnvChange

Spec == Init /\ [][Next]_vars

\* Every call in progress keeps running: the calls block, they do not stop.
FairSpec == Spec /\ \A t \in Threads : WF_vars(CallStep(t))

\* Two callers share one manager made from a list of two endpoints, with or
\* without a mutex of their own.
SharedInit ==
    /\ mgr = "new"
    /\ supplied \in {s \in SuppliedLists : Len(s) = MaxSharedEndpoints}
    /\ endpoints = <<>>
    /\ client = NoClient
    /\ active_idx = 0
    /\ health \in [Range(supplied) -> BOOLEAN]
    /\ callers = Threads
    /\ mutex \in BOOLEAN
    /\ th = [t \in Threads |-> IdleThread]
    /\ hist = [t \in Threads |-> NoHist]
    /\ closeLog = NoClose

SharedSpec == SharedInit /\ [][Next]_vars

\* ================================================================ claims
\* A call that has ended by raising / by returning a value.
Raised(t) == th[t].pc = "done" /\ th[t].ret.kind = "raised"
Returned(t) == th[t].pc = "done" /\ th[t].ret.kind = "value"

\* The exception in flight came from the command / from _connect.
OpFailed(t, kind) == th[t].exc.src = "op" /\ th[t].exc.kind = kind

\* C1: when every attempt of an execute call invokes the command and the
\* command fails with a transient error every time, the attempt body runs
\* exactly MaxAttempts (5) times and the call raises the transient error of
\* the last invocation; each of the failures, the last one included, has
\* dropped the held handle and advanced the active index by one modulo the
\* list length. (Whenever a call ends by raising a transient error it has
\* made exactly 5 attempts and slept 4 times.)
C1_AlwaysTransient ==
    \A t \in Threads :
        /\ (th[t].pc = "tenacity" /\ OpFailed(t, "transient"))
              => /\ client = NoClient
                 /\ active_idx = (hist[t].opIdx + 1) % N
        /\ (Raised(t) /\ th[t].exc.kind = "transient")
              => /\ th[t].attempt = MaxAttempts
                 /\ hist[t].ensures = MaxAttempts
                 /\ hist[t].sleeps = MaxAttempts - 1
        /\ (Raised(t) /\ OpFailed(t, "transient"))
              => /\ th[t].exc.at = hist[t].opCalls
                 /\ client = NoClient
                 /\ active_idx = (hist[t].opIdx + 1) % N
        /\ (Raised(t) /\ OpFailed(t, "transient") /\ hist[t].opCalls = hist[t].ensures)
              => /\ hist[t].opCalls = MaxAttempts
                 /\ active_idx =
                      (hist[t].startIdx + MaxAttempts + hist[t].failedProbes) % N

\* C1 witness: five invocations on a list of three, each failed transiently,
\* no probe failed, and the call has raised.
C1_Witness ==
    /\ N = 3
    /\ Raised(Owner) /\ OpFailed(Owner, "transient")
    /\ hist[Owner].opCalls = MaxAttempts
    /\ hist[Owner].failedProbes = 0
    /\ hist[Owner].startIdx = 1
    /\ active_idx = 0

\* C2 as stated: after k transient failures and a success the final active
\* index is (initial index + k) mod the list length.
C2_Original ==
    \A t \in Threads :
        Returned(t) =>
            active_idx = (hist[t].startIdx + (hist[t].opCalls - 1)) % N

\* C2 (amended): when the command fails transiently k times (k < 5) and then
\* succeeds, execute returns the result of the succeeding (last) invocation,
\* served by the endpoint at the final active index, and the final active
\* index is (initial index + k + number of failed probes of the call) mod
\* the list length: (initial index + k) when no probe failed.
C2_FailThenSucceed ==
    \A t \in Threads :
        Returned(t) =>
            LET k == hist[t].opCalls - 1
            IN  /\ k >= 0 /\ k < MaxAttempts
                /\ th[t].attempt = hist[t].ensures
                /\ th[t].ret.inv = hist[t].opCalls
                /\ th[t].ret.ep = endpoints[active_idx + 1]
                /\ client = th[t].client /\ client # NoClient
                /\ active_idx = (hist[t].startIdx + k + hist[t].failedProbes) % N

\* C2 witness: the scenario of the claim. The first invocation ran against
\* index 0 and failed, the second ran against index 1 and succeeded.
C2_Witness ==
    /\ N >= 2
    /\ Returned(Owner)
    /\ hist[Owner].startIdx = 0
    /\ hist[Owner].opCalls = 2
    /\ hist[Owner].failedProbes = 0
    /\ th[Owner].ret.inv = 2
    /\ active_idx = 1

\* C3: a fatal error of the command, on any attempt, leaves the handle and
\* the active index as they are, and the next thing execute does is to
\* raise it: no sleep, no further _ensure_client, no further invocation.
C3_FatalPropagates ==
    [][\A t \in Threads :
          /\ (th[t].pc = "call" /\ th'[t].pc = "tenacity")
                => /\ th'[t].exc.kind = "fatal"
                   /\ client' = client /\ client' = th[t].client
                   /\ active_idx' = active_idx
          /\ (th[t].pc = "tenacity" /\ OpFailed(t, "fatal") /\ th'[t] # th[t])
                => /\ th'[t].pc = "done"
                   /\ th'[t].ret.kind = "raised"
                   /\ th'[t].exc = th[t].exc
                   /\ th'[t].exc.at = hist'[t].opCalls
                   /\ hist'[t] = hist[t]
                   /\ client' = client /\ client' # NoClient
                   /\ active_idx' = active_idx]_vars

\* C3 witness: a fatal error on the third attempt has been raised.
C3_Witness ==
    /\ Raised(Owner) /\ OpFailed(Owner, "fatal")
    /\ th[Owner].attempt = 3
    /\ hist[Owner].opCalls = 3
    /\ hist[Owner].sleeps = 2
    /\ client # NoClient

\* C4 as stated: a rotation in which every probe failed is retried up to the
\* ceiling whatever the kind of the probe errors, so a call that ends with a
\* probe error has made MaxAttempts attempts.
C4_ExhaustionRetried ==
    \A t \in Threads :
        (Raised(t) /\ th[t].exc.src = "probe") => th[t].attempt = MaxAttempts

\* The probes of the current _connect call follow the rotation from the
\* active index the call found.
InRotation(t) ==
    \A j \in 1..Len(hist[t].probed) :
        hist[t].probed[j].pos = (hist[t].connIdx + j - 1) % N

\* C5: a _connect call in which every probe failed has probed each of the N
\* positions exactly once, in rotation order from the active index, and
\* raises the error of the last one, position (active index + N - 1) mod N;
\* no _connect call makes more than N probes, and the failed call leaves
\* the handle absent and the index as it was.
C5_Exhaustion ==
    \A t \in Threads :
        /\ Len(hist[t].probed) <= N
        /\ InRotation(t)
        /\ (th[t].pc = "tenacity" /\ th[t].exc.src = "probe")
              => /\ Len(hist[t].probed) = N
                 /\ \A j \in 1..N : ~hist[t].probed[j].ok
                 /\ th[t].exc = th[t].last_err
                 /\ th[t].exc.at = hist[t].probed[N].pos
                 /\ th[t].exc.at = (hist[t].connIdx + N - 1) % N
                 /\ client = NoClient
                 /\ active_idx = hist[t].connIdx

\* C5 witness: three endpoints, the rotation began at index 1 and every probe
\* failed; the error raised is that of index 0.
C5_Witness ==
    /\ N = 3
    /\ th[Owner].pc = "tenacity" /\ th[Owner].exc.src = "probe"
    /\ hist[Owner].connIdx = 1
    /\ th[Owner].exc.at = 0
    /\ Len(hist[Owner].probed) = 3

\* C6: a _connect call that succeeds has probed, in rotation order from the
\* active index, exactly the endpoints up to the first one that answers:
\* each one before it once and failing, none after it; it stores the handle
\* built for that endpoint and sets the active index to its position, and a
\* command that then succeeds returns that endpoint's value.
C6_FirstThatAnswers ==
    \A t \in Threads :
        ((th[t].pc = "call" \/ Returned(t)) /\ hist[t].probed # <<>>)
          => LET n == Len(hist[t].probed)
             IN  /\ n <= N
                 /\ InRotation(t)
                 /\ hist[t].probed[n].ok
                 /\ \A j \in 1..(n - 1) : ~hist[t].probed[j].ok
                 /\ active_idx = hist[t].probed[n].pos
                 /\ client # NoClient /\ client.open
                 /\ client = th[t].client
                 /\ client.ep = endpoints[active_idx + 1]
                 /\ Returned(t) => th[t].ret.ep = endpoints[active_idx + 1]

\* C6 witness: the scenario of the claim, endpoints [A, B] with A down and B
\* up and no handle held: one invocation, A probed once, B's value returned.
C6_Witness ==
    /\ N = 2
    /\ endpoints[1] # endpoints[2]
    /\ ~health[endpoints[1]] /\ health[endpoints[2]]
    /\ Returned(Owner)
    /\ hist[Owner].regular
    /\ hist[Owner].startIdx = 0
    /\ hist[Owner].opCalls = 1
    /\ hist[Owner].probed = <<[pos |-> 0, ok |-> FALSE], [pos |-> 1, ok |-> TRUE]>>
    /\ th[Owner].ret.ep = endpoints[2]
    /\ client.ep = endpoints[2]
    /\ active_idx = 1

\* Some endpoint of the list answers.
SomeHealthy == \E j \in 1..N : health[endpoints[j]]

\* The position of the first endpoint that answers, in rotation order.
FirstHealthy(from) ==
    LET d == Min({i \in 0..(N - 1) : health[endpoints[((from + i) % N) + 1]]})
    IN  (from + d) % N

\* What C7 concludes: a value after at most two invocations, and the handle
\* held is one to the first endpoint that answers.
FailedOver(t) ==
    /\ Returned(t)
    /\ hist[t].opCalls <= 2
    /\ client # NoClient /\ client.open
    /\ active_idx = FirstHealthy(hist[t].startIdx)
    /\ client.ep = endpoints[active_idx + 1]
    /\ th[t].ret.ep = client.ep

\* C7 as stated: with steady endpoints, the command succeeding exactly on
\* the endpoints that answer (failing in any way on the others) and some
\* endpoint answering, execute ends failed over.
C7_Original ==
    \A t \in Threads :
        (th[t].pc = "done" /\ hist[t].regular /\ SomeHealthy) => FailedOver(t)

\* C7 (amended): as stated, provided the command fails on an endpoint that
\* does not answer with a transient error (a fatal one is raised at once).
C7_Failover ==
    \A t \in Threads :
        (th[t].pc = "done" /\ hist[t].regular /\ SomeHealthy /\ ~OpFailed(t, "fatal"))
          => FailedOver(t)

\* C7 witness: a stale handle to an endpoint that went down before the call;
\* the first invocation failed, the second ran two positions further, on the
\* first endpoint that answers.
C7_Witness ==
    /\ N = 3
    /\ Returned(Owner)
    /\ hist[Owner].regular
    /\ hist[Owner].opCalls = 2
    /\ hist[Owner].ensures = 2
    /\ hist[Owner].startIdx = 2
    /\ active_idx = 1
    /\ Len(hist[Owner].probed) = 2

\* The counts one execute call may reach: one _ensure_client call per
\* attempt and at most one invocation per attempt, at most MaxAttempts
\* attempts, one sleep between two attempts, and at most N probes per
\* _ensure_client call (probed is the log of the last one), which makes at
\* most MaxAttempts * N probes in the call.
Bounded(t) ==
    /\ th[t].attempt <= MaxAttempts
    /\ hist[t].ensures <= th[t].attempt
    /\ hist[t].opCalls <= hist[t].ensures
    /\ hist[t].ensures <= MaxAttempts
    /\ hist[t].opCalls <= MaxAttempts
    /\ Len(hist[t].probed) <= N
    /\ (hist[t].ensures - 1) * N + Len(hist[t].probed) <= MaxAttempts * N
    /\ th[t].pc # "idle" => hist[t].sleeps = th[t].attempt - 1

\* C8: every execute call ends, by returning or raising, whatever the
\* endpoints and the command do, within the bounds above.
C8_Terminates ==
    /\ [](\A t \in Threads : Bounded(t))
    /\ \A t \in Threads : (th[t].pc # "idle") ~> (th[t].pc = "done")

\* C8 witness: a call that used up the ceiling with connection failures and
\* command failures mixed: five attempts, three invocations.
C8_Witness ==
    /\ N = 3
    /\ Raised(Owner)
    /\ th[Owner].attempt = MaxAttempts
    /\ hist[Owner].ensures = MaxAttempts
    /\ hist[Owner].opCalls = 3
    /\ th[Owner].exc.src = "probe"

\* C9: after close() no handle is held and the active index is the one
\* close() found; the call that follows builds and probes a new handle,
\* starting the rotation at that index, before it invokes the command; a
\* handle that was closed is never handed to the command.
C9_FreshAfterClose ==
    /\ (closeLog.fresh /\ \A t \in Threads : th[t].pc # "call")
          => /\ client = NoClient
             /\ active_idx = closeLog.idx
    /\ \A t \in Threads :
        /\ closeLog.fresh
              => /\ th[t].pc \in {"idle", "ensure", "connect", "call", "tenacity",
                                 "sleep", "done"}
                 /\ hist[t].opCalls = 0
                 /\ th[t].pc = "connect" => hist[t].connIdx = closeLog.idx
        /\ (closeLog.fresh /\ th[t].pc = "call")
              => /\ hist[t].probed # <<>>
                 /\ hist[t].probed[1].pos = closeLog.idx
                 /\ hist[t].probed[Len(hist[t].probed)].ok
                 /\ InRotation(t)
                 /\ client = th[t].client
        /\ th[t].pc = "call"
              => /\ th[t].client # NoClient
                 /\ th[t].client.open

\* C9 witness: a handle to the endpoint at index 2 was held and closed, and
\* the call that followed is about to invoke the command on a handle it has
\* built and probed, after a failed probe of index 2.
C9_Witness ==
    /\ N = 3
    /\ closeLog.fresh /\ closeLog.released = "ok" /\ closeLog.idx = 2
    /\ th[Owner].pc = "call"
    /\ hist[Owner].ensures = 1
    /\ Len(hist[Owner].probed) = 2
    /\ th[Owner].client.open
    /\ active_idx = 0

\* C10: a close() returns, never raises, and leaves no handle held, whether
\* or not one was held and whether or not its release raised; it changes
\* neither the active index nor the list, and one that directly follows
\* another changes nothing at all.
C10_CloseCompletes ==
    [][(closeLog' # closeLog /\ closeLog'.fresh /\ th' = th)
         => /\ closeLog'.outcome = "returned"
            /\ client' = NoClient
            /\ active_idx' = active_idx
            /\ endpoints' = endpoints
            /\ mgr' = mgr
            /\ closeLog.fresh => (client' = client /\ closeLog'.released = "none")]_vars

\* C10 witness: the release raised in the first close(), a second close()
\* followed, and no handle is held.
C10_Witness ==
    /\ closeLog.fresh
    /\ closeLog.again = "error"
    /\ closeLog.released = "none"
    /\ closeLog.outcome = "returned"
    /\ client = NoClient
    /\ N = 3 /\ active_idx = 2

\* C11: construction succeeds for every non-empty list, and the manager it
\* makes holds a list of the same length, the active index 0 and no handle;
\* for the empty list it raises and makes no manager: nothing is ever held,
\* and no call is ever made on it. Before construction there is no manager
\* either.
C11_Construction ==
    /\ [][(mgr = "new" /\ mgr' # "new")
            => IF supplied # <<>>
               THEN /\ mgr' = "ready"
                    /\ Len(endpoints') = Len(supplied)
                    /\ active_idx' = 0
                    /\ client' = NoClient
               ELSE /\ mgr' = "failed"
                    /\ endpoints' = <<>>
                    /\ client' = NoClient]_vars
    /\ [](mgr = "ready" => supplied # <<>>)
    /\ [](mgr = "failed" => supplied = <<>>)
    /\ [](mgr # "ready"
            => /\ endpoints = <<>> /\ client = NoClient
               /\ \A t \in Threads : th[t].pc = "idle"
               /\ ~closeLog.fresh)
    /\ [][mgr # "new" => mgr' = mgr]_vars

\* C11 witness: a manager just made from a list of three, shuffled into
\* another order, with index 0 and no handle.
C11_Witness ==
    /\ mgr = "ready"
    /\ Len(supplied) = 3
    /\ endpoints # supplied
    /\ active_idx = 0
    /\ client = NoClient
    /\ \A t \in Threads : th[t].pc = "idle"

\* The held handle is one to the endpoint at the active index.
HandleAtIndex == client # NoClient => client.ep = endpoints[active_idx + 1]

\* The handle a caller is about to use, or about to drop after its command
\* failed, is the handle the manager holds, and it is open.
OwnHandle(t) ==
    th[t].pc \in {"call", "except"}
        => /\ th[t].client = client
           /\ client # NoClient /\ client.open

\* C12: two callers sharing one manager. When each holds a mutex across
\* every attempt (_ensure_client, the command, the except block) and across
\* close(), the held handle is always one to the endpoint at the active
\* index, and a caller only ever uses and drops the handle the manager
\* holds: one failure advances the index once, and no newer handle is
\* dropped for it. Without the mutex such states are reached (the witness).
C12_MutexExcludesRace ==
    mutex => /\ HandleAtIndex
             /\ \A t \in Threads : OwnHandle(t)
             /\ \A t, u \in Threads : (InAttempt(t) /\ InAttempt(u)) => t = u

\* C12 witness: no mutex, endpoints [A, B] with A down. Both callers held
\* the handle to A and both commands failed. t2 dropped the handle; t1
\* dropped it too, advanced the index to 1 and connected to B; then t2
\* advanced the index again, back to A. The manager holds a handle to B,
\* which answers, and the active index is that of A.
C12_Witness ==
    /\ ~mutex
    /\ callers = Threads
    /\ N = 2
    /\ ~health[endpoints[1]] /\ health[endpoints[2]]
    /\ th["t1"].pc = "call" /\ th["t1"].attempt = 2
    /\ th["t2"].pc = "tenacity" /\ th["t2"].attempt = 1
    /\ th["t2"].exc = [kind |-> "transient", src |-> "op", at |-> 1]
    /\ client # NoClient /\ client.open
    /\ client = th["t1"].client
    /\ client.ep = endpoints[2]
    /\ active_idx = 0
    /\ ~HandleAtIndex

\* The command of the caller's current attempt has failed with a transient
\* error and no later _ensure_client has run.
AfterTransientFailure(t) ==
    \/ th[t].pc = "advance"
    \/ th[t].pc \in {"tenacity", "sleep", "done"} /\ OpFailed(t, "transient")
    \/ th[t].pc = "ensure" /\ th[t].attempt > 1

\* C13: in single-owner use the manager holds at most one handle: every
\* handle a call works with is the one in the manager's slot (until the
\* except block has emptied it). A held handle
\* is always one to the endpoint at the active index, and it got into the
\* slot by a probe of _connect that this endpoint answered. After a
\* transient failure of the command the slot is empty, and an empty slot
\* is only filled by the next _connect.
C13_HandleInvariant ==
    /\ [](HandleAtIndex)
    /\ [](\A t \in Threads :
            /\ (th[t].client # NoClient /\ th[t].pc # "advance")
                  => th[t].client = client
            /\ AfterTransientFailure(t) => client = NoClient)
    /\ [][(client' # client /\ client' # NoClient)
            => /\ client = NoClient
               /\ client'.open
               /\ health[client'.ep]
               /\ client'.ep = endpoints[active_idx' + 1]
               /\ \E t \in Threads :
                     /\ th[t].pc = "connect" /\ th'[t].pc = "call"
                     /\ th'[t].client = client'
                     /\ hist'[t].probed[Len(hist'[t].probed)] =
                            [pos |-> active_idx', ok |-> TRUE]]_vars

\* C13 witness: the first command failed transiently on the handle to the
\* endpoint at index 0, the slot was emptied, and the second attempt has
\* acquired a handle to the endpoint at index 2 after a failed probe of
\* index 1.
C13_Witness ==
    /\ N = 3
    /\ callers = {Owner}
    /\ th[Owner].pc = "call" /\ th[Owner].attempt = 2
    /\ hist[Owner].startIdx = 0
    /\ hist[Owner].opCalls = 1
    /\ hist[Owner].probed = <<[pos |-> 1, ok |-> FALSE], [pos |-> 2, ok |-> TRUE]>>
    /\ client # NoClient /\ client.open
    /\ client = th[Owner].client
    /\ client.ep = endpoints[3]
    /\ active_idx = 2

\* C14: the active index changes only in a _connect whose probe succeeded,
\* to the position of the endpoint that answered, and in the except block
\* after a transient failure of the command, by one modulo the list length.
\* A _connect that fails leaves the index as it was and the handle absent;
\* a command that succeeds, a command that fails with a fatal error and
\* close() leave the index as it was.
C14_IndexFrame ==
    [][/\ active_idx' # active_idx
            => \E t \in Threads :
                 \/ /\ th[t].pc = "connect" /\ th'[t].pc = "call"
                    /\ active_idx' = ProbeIdx(th[t].i)
                    /\ health[endpoints[active_idx' + 1]]
                    /\ client' = th'[t].client /\ client' # NoClient
                    /\ client'.ep = endpoints[active_idx' + 1]
                 \/ /\ th[t].pc = "advance" /\ th'[t].pc = "tenacity"
                    /\ OpFailed(t, "transient")
                    /\ active_idx' = (active_idx + 1) % N
       /\ \A t \in Threads :
            /\ (th[t].pc = "connect" /\ th'[t].pc = "call")
                  => active_idx' = ProbeIdx(th[t].i)
            /\ (th[t].pc = "advance" /\ th'[t].pc = "tenacity")
                  => active_idx' = (active_idx + 1) % N
            /\ (th[t].pc = "connect" /\ th'[t].pc \in {"connect", "tenacity"})
                  => /\ active_idx' = active_idx
                     /\ client' = NoClient /\ client = NoClient
            /\ (th[t].pc = "call" /\ th'[t].pc \in {"done", "tenacity"})
                  => active_idx' = active_idx
       /\ (closeLog' # closeLog /\ closeLog'.fresh /\ th' = th)
            => active_idx' = active_idx]_vars

\* C14 witness: a call on a list of three that began at index 0: the first
\* command failed transiently (index 1), the probe of index 1 failed and
\* that of index 2 succeeded (index 2), and the second command failed with
\* a fatal error, which left the index at 2.
C14_Witness ==
    /\ N = 3
    /\ Raised(Owner) /\ OpFailed(Owner, "fatal")
    /\ hist[Owner].startIdx = 0
    /\ hist[Owner].opCalls = 2
    /\ hist[Owner].probed = <<[pos |-> 1, ok |-> FALSE], [pos |-> 2, ok |-> TRUE]>>
    /\ active_idx = 2
    /\ client # NoClient

\* C15: when a handle is held, _ensure_client hands that handle to the
\* attempt as it is: the slot, the handle and the active index are left
\* alone, no handle is built and no endpoint is probed, whether or not the
\* endpoint behind the handle still answers.
C15_HeldHandleReturned ==
    [][\A t \in Threads :
          (th[t].pc = "ensure" /\ client # NoClient /\ th'[t] # th[t])
            => /\ th'[t].pc = "call"
               /\ th'[t].client = client
               /\ client' = client
               /\ active_idx' = active_idx
               /\ UsedIds' = UsedIds
               /\ hist'[t].probed = hist[t].probed
               /\ hist'[t].failedProbes = hist[t].failedProbes
               /\ hist'[t].ensures = hist[t].ensures + 1]_vars

\* C15 witness: the call found a handle held and is about to invoke the
\* command on it without having probed anything, although the endpoint
\* behind the handle no longer answers.
C15_Witness ==
    /\ N = 3
    /\ th[Owner].pc = "call" /\ th[Owner].attempt = 1
    /\ hist[Owner].ensures = 1
    /\ hist[Owner].probed = <<>>
    /\ client # NoClient /\ client.open
    /\ th[Owner].client = client
    /\ ~health[client.ep]
    /\ active_idx = 1
    /\ hist[Owner].startIdx = 1

\* C16: a probe that fails, with an error of either kind, ends neither the
\* loop of _connect nor the call: the error is kept as last_err, nothing
\* else changes, and the loop goes on with the next position of the
\* rotation (the probes of a _connect are consecutive positions).
C16_ProbeFailureContinues ==
    /\ [](\A t \in Threads : InRotation(t))
    /\ [][\A t \in Threads :
            (/\ th[t].pc = "connect" /\ th[t].i < N
             /\ ~health[endpoints[ProbeIdx(th[t].i) + 1]]
             /\ th'[t] # th[t])
              => /\ th'[t].pc = "connect"
                 /\ th'[t].i = th[t].i + 1
                 /\ th'[t].last_err.src = "probe"
                 /\ th'[t].last_err.kind \in ErrKinds
                 /\ th'[t].last_err.at = ProbeIdx(th[t].i)
                 /\ th'[t].exc = NoErr
                 /\ client' = client /\ active_idx' = active_idx
                 /\ hist'[t].probed =
                       Append(hist[t].probed, [pos |-> ProbeIdx(th[t].i), ok |-> FALSE])
                 /\ (th'[t].i < N) => ProbeIdx(th'[t].i) = (ProbeIdx(th[t].i) + 1) % N]_vars

\* C16 witness: on a list of three the rotation began at index 2; the probe
\* of index 2 failed and so did that of index 0, with a fatal error, and
\* the loop is about to probe index 1.
C16_Witness ==
    /\ N = 3
    /\ th[Owner].pc = "connect"
    /\ th[Owner].i = 2
    /\ th[Owner].last_err = [kind |-> "fatal", src |-> "probe", at |-> 0]
    /\ hist[Owner].probed = <<[pos |-> 2, ok |-> FALSE], [pos |-> 0, ok |-> FALSE]>>
    /\ active_idx = 2
    /\ client = NoClient

\* C17: a call sleeps only after an attempt that raised a transient error
\* and before the next attempt, which follows every sleep: never before
\* the first attempt, after a success, after a fatal error or after the
\* fifth attempt, so at most MaxAttempts - 1 = 4 times. The sleep after
\* attempt n lasts between 0 and min(0.2 * 2^(n-1), 2.0) time units (in
\* fifths: between 0 and min(2^(n-1), 10)).
C17_Backoff ==
    /\ [](\A t \in Threads :
            /\ hist[t].sleeps <= MaxAttempts - 1
            /\ th[t].pc \in {"ensure", "connect", "call", "except", "advance", "tenacity"}
                  => /\ th[t].wait = 0
                     /\ hist[t].sleeps = th[t].attempt - 1
            /\ th[t].pc = "sleep"
                  => /\ th[t].exc.kind = "transient"
                     /\ th[t].attempt < MaxAttempts
                     /\ hist[t].sleeps = th[t].attempt - 1
                     /\ th[t].wait >= 0
                     /\ th[t].wait <= WaitMax
                     /\ th[t].wait <= 2^(th[t].attempt - 1)
            /\ th[t].pc = "done"
                  => /\ th[t].wait = 0
                     /\ hist[t].sleeps = th[t].attempt - 1)
    /\ [][\A t \in Threads :
            /\ (th'[t].pc = "sleep" /\ th[t].pc # "sleep")
                  => /\ th[t].pc = "tenacity"
                     /\ th[t].exc.kind = "transient"
            /\ (th[t].pc = "sleep" /\ th'[t] # th[t])
                  => /\ th'[t].pc = "ensure"
                     /\ th'[t].attempt = th[t].attempt + 1
                     /\ hist'[t].sleeps = hist[t].sleeps + 1
            /\ (th[t].pc = "tenacity" /\ th'[t].pc = "done")
                  => \/ th[t].exc.kind = "fatal"
                     \/ th[t].attempt = MaxAttempts]_vars

\* C17 witness: the fourth attempt failed transiently and the call sleeps
\* the longest wait that follows it, 8 fifths (1.6 time units), its fourth
\* sleep.
C17_Witness ==
    /\ th[Owner].pc = "sleep"
    /\ th[Owner].attempt = MaxAttempts - 1
    /\ hist[Owner].sleeps = 3
    /\ th[Owner].wait = 8
    /\ OpFailed(Owner, "transient")
    /\ N = 3

\* How many times an endpoint occurs in a list.
Count(s, e) == Cardinality({j \in DOMAIN s : s[j] = e})

\* C18: the list of a constructed manager is a permutation of the list the
\* caller supplied: the same length and every endpoint as many times.
\* Construction leaves the caller's list as it was, and after construction
\* no step (of execute, _ensure_client, the except block or close())
\* changes the manager's list.
C18_ListStable ==
    /\ [](mgr = "ready"
            => /\ Len(endpoints) = Len(supplied)
               /\ \A e \in EndpointIds : Count(endpoints, e) = Count(supplied, e))
    /\ [][supplied' = supplied]_vars
    /\ [][mgr = "ready" => endpoints' = endpoints]_vars

\* C18 witness: the caller's list [A, A, B] was shuffled into [B, A, A],
\* and a call that made five attempts, with failovers and reconnects, has
\* left both lists as they were.
C18_Witness ==
    /\ mgr = "ready"
    /\ supplied = <<1, 1, 2>>
    /\ endpoints = <<2, 1, 1>>
    /\ Raised(Owner)
    /\ hist[Owner].opCalls = MaxAttempts
    /\ active_idx = 2

\* C19: the active index of a constructed manager is always a position of
\* its list, 0 <= index < N, whatever calls were made and however they
\* ended; with a single endpoint it is always 0.
C19_IndexInRange ==
    mgr = "ready"
        => /\ active_idx >= 0
           /\ active_idx < N
           /\ N = 1 => active_idx = 0

\* C19 witness: on a list of three the command failed transiently on the
\* endpoint at the last index, 2, and the index wrapped around to 0.
C19_Witness ==
    /\ N = 3
    /\ th[Owner].pc = "tenacity" /\ OpFailed(Owner, "transient")
    /\ hist[Owner].opIdx = 2
    /\ hist[Owner].opCalls = 3
    /\ active_idx = 0

====
